---------------------------- MODULE Spec2Model ----------------------------
(***************************************************************************)
(* hans: the command registry and dispatch engine of CmdSession            *)
(* (src/hans/session.py).                                                  *)
(*                                                                         *)
(* A Python dict is modelled with its insertion order, as a sequence of    *)
(* <<key, value>> pairs with unique keys; a value is a Command or a dict.  *)
(* An exception is modelled as the name of what is raised, "none" when the *)
(* call returns.                                                           *)
(***************************************************************************)
EXTENDS Integers, Sequences, FiniteSets, TLC

VARIABLES
    cmds,        \* self.cmds: the registered collections, key -> collection
    __cmds,      \* CmdSession.__cmds: all current commands, aliases expanded
    compl_dict,  \* self.compl_dict: the dictionary for command completion
    completer,   \* what self.completer was last given through update()
    pc,          \* "running"; "returned" once handle_forever returned,
                 \* "exited" once SystemExit left it, "deleted" after __del__
    regorder,    \* history: the registered keys, by their latest extend call
    gone,        \* history: the collection the latest remove call removed
    last,        \* the call the session just served and what its caller
                 \* saw of it; Idle between two calls
    supplied,    \* history: the collections as the callers passed them
    cleanups,    \* the number of calls of the cleanup callback so far
    peer         \* a second CmdSession of the process, NoPeer before it is
                 \* constructed: its cmds, compl_dict and completer

vars == <<cmds, __cmds, compl_dict, completer, pc, regorder, gone, last,
          supplied, cleanups, peer>>

\* The registry and what is derived from it.
registry == <<cmds, __cmds, compl_dict, completer>>

(***************************************************************************)
(* Bounds of the model.                                                    *)
(***************************************************************************)
MaxTokens == 3

(***************************************************************************)
(* Values: Command objects and dicts.                                      *)
(***************************************************************************)
\* A Command object: an identity, its aliases, what available(state) returns
\* for the session's state, what a call of it does, and the object it is:
\* "caller" for the object the caller built, the collection key for the copy
\* that copy.deepcopy made of it when that collection was expanded.
Command(id, aliases, available, call) ==
    [type |-> "cmd", id |-> id, aliases |-> aliases, available |-> available,
     call |-> call, inst |-> "caller"]

Dict(items) == [type |-> "dict", items |-> items]

Empty == Dict(<< >>)

\* isinstance(v, dict), isinstance(v, Command)
IsDict(v) == v.type = "dict"

IsCommand(v) == v.type = "cmd"

\* No value: what a call holds when it returned no node.
NoValue == [type |-> "none"]

\* The positions, keys and values of a dict, in insertion order.
Slots(d) == 1 .. Len(d.items)

Keys(d) == {d.items[i][1] : i \in Slots(d)}

\* k in d
Has(d, k) == \E i \in Slots(d) : d.items[i][1] = k

\* d[k]
Get(d, k) == d.items[CHOOSE i \in Slots(d) : d.items[i][1] = k][2]

\* d[k] = v: an existing key keeps its position, a new key goes last.
Put(d, k, v) ==
    IF Has(d, k)
    THEN Dict([i \in Slots(d) |->
                 IF d.items[i][1] = k THEN <<k, v>> ELSE d.items[i]])
    ELSE Dict(Append(d.items, <<k, v>>))

\* d.pop(k), for a key that is there
Pop(d, k) == Dict(SelectSeq(d.items, LAMBDA it : it[1] # k))

\* copy.deepcopy(v): a new object for every Command under v; owner names
\* the copy (one deepcopy call per collection and rebuild).
RECURSIVE deepcopy(_, _)
deepcopy(v, owner) ==
    IF IsDict(v)
    THEN Dict([i \in Slots(v) |->
                 <<v.items[i][1], deepcopy(v.items[i][2], owner)>>])
    ELSE [v EXCEPT !.inst = owner]

(***************************************************************************)
(* The commands and collections that callers register.                     *)
(***************************************************************************)
GO == Command("GO", <<"g">>, TRUE, "return")

GO2 == Command("GO2", << >>, TRUE, "SystemExit")

GO3 == Command("GO3", << >>, TRUE, "return")

FOO == Command("FOO", << >>, TRUE, "KeyError")

BAR == Command("BAR", <<"g">>, TRUE, "Exception")

BAR2 == Command("BAR2", << >>, TRUE, "KeyboardInterrupt")

OFF == Command("OFF", << >>, FALSE, "return")

core == Dict(<< <<"go", GO>> >>)

alt == Dict(<< <<"foo", FOO>>, <<"go", GO2>> >>)

tree == Dict(<< <<"foo", Dict(<< <<"bar", BAR>> >>)>>, <<"go", GO3>> >>)

tree2 == Dict(<< <<"foo", Dict(<< <<"go", BAR2>> >>)>> >>)

hollow == Dict(<< <<"foo", Empty>> >>)

misc == Dict(<< <<"bar", OFF>> >>)

Collections == {core, alt, tree, tree2, hollow, misc}

\* Commands that use the session they are given (state.session): a call of
\* "extend" or "remove" is session.extend(...) or session.remove(...) with the
\* arguments of script, a call of "exit" is session.exit().
LOAD == Command("LOAD", <<"g">>, TRUE, "extend")

RELOAD == Command("RELOAD", << >>, TRUE, "extend")

UNLOAD == Command("UNLOAD", << >>, TRUE, "remove")

EJECT == Command("EJECT", << >>, TRUE, "remove")

QUIT == Command("QUIT", << >>, TRUE, "exit")

shell == Dict(<< <<"go", LOAD>>, <<"foo", QUIT>>, <<"bar", EJECT>> >>)

plugin == Dict(<< <<"bar", UNLOAD>>, <<"go", RELOAD>> >>)

\* The arguments of the call that the Command X makes on its session: LOAD
\* registers the plugin, whose RELOAD registers tree in its place and whose
\* UNLOAD removes the collection it is in; EJECT removes the collection the
\* session was constructed with, which holds EJECT itself.
script(X) ==
    CASE X.id = "LOAD" -> [coll_name |-> "A", cmds |-> plugin]
      [] X.id = "RELOAD" -> [coll_name |-> "A", cmds |-> tree]
      [] X.id = "UNLOAD" -> [coll_name |-> "A", cmds |-> Empty]
      [] X.id = "EJECT" -> [coll_name |-> "__init__", cmds |-> Empty]

\* The collections an interactive shell is constructed with.
Shells == {shell}

CollNames == {"__init__", "A"}

Tokens == {"go", "g", "foo", "bar"}

\* The token lists a caller passes to parse.
TokenSeqs == UNION {[1 .. n -> Tokens] : n \in 0 .. MaxTokens}

\* The lines a user types: words and runs of whitespace (" ").
Lines ==
    TokenSeqs
    \cup {<<" ">>, <<" ", " ">>}
    \cup {<<" ", t, " ">> : t \in Tokens}
    \cup {<<t, " ", u>> : t \in Tokens, u \in Tokens}

(***************************************************************************)
(* CmdSession.__build_aliases                                              *)
(***************************************************************************)
\* As alias_entries, were every alias given a copy of the Command.
RECURSIVE alias_entries_copied(_, _, _)
alias_entries_copied(d, v, j) ==
    IF j > Len(v.aliases)
    THEN d
    ELSE alias_entries_copied(Put(d, v.aliases[j], [v EXCEPT !.inst = "alias"]),
                              v, j + 1)

\* for a in v.aliases: __cmds[a] = v
RECURSIVE alias_entries(_, _, _)
alias_entries(d, v, j) ==
    IF j > Len(v.aliases)
    THEN d
    ELSE alias_entries(Put(d, v.aliases[j], v), v, j + 1)

\* As alias_loop, were the aliases expanded in the sub-trees as well.
RECURSIVE alias_loop_nested(_, _, _)
alias_loop_nested(d, snapshot, i) ==
    IF i > Len(snapshot.items)
    THEN d
    ELSE LET v == snapshot.items[i][2]
         IN  alias_loop_nested(
                 IF IsCommand(v)
                 THEN alias_entries(d, v, 1)
                 ELSE Put(d, snapshot.items[i][1], alias_loop_nested(v, v, 1)),
                 snapshot, i + 1)

\* for v in __cmds.copy().values(): the loop runs over a snapshot of the
\* copy, so only the values of the top level are visited.
RECURSIVE alias_loop(_, _, _)
alias_loop(d, snapshot, i) ==
    IF i > Len(snapshot.items)
    THEN d
    ELSE LET v == snapshot.items[i][2]
         IN  alias_loop(IF IsCommand(v) THEN alias_entries(d, v, 1) ELSE d,
                        snapshot, i + 1)

__build_aliases(c, owner) ==
    LET copy == deepcopy(c, owner)
    IN  alias_loop(copy, copy, 1)

\* As build_aliases_argument, were the aliases written to the dict that the
\* caller passed instead of to a copy of it.
build_aliases_in_place(c, owner) == alias_loop(c, c, 1)

\* The dict cmds that __build_aliases was given, as the call leaves it: the
\* loop writes the alias entries to the deep copy __cmds, never to cmds.
build_aliases_argument(c, owner) == c

(***************************************************************************)
(* CmdSession.deep_merge: the result is the dict a as the call left it and *)
(* what the call raised, "none" when it returned.                          *)
(***************************************************************************)
RECURSIVE deep_merge(_, _)
RECURSIVE merge_items(_, _, _)
\* for k, v in b.items(), from the i-th item on, a being a dict
merge_items(a, b, i) ==
    IF i > Len(b.items)
    THEN [a |-> a, raised |-> "none"]
    ELSE LET k == b.items[i][1]
             v == b.items[i][2]
         IN  IF IsDict(v)
             THEN LET a1 == IF Has(a, k) THEN a ELSE Put(a, k, Empty)
                      r == deep_merge(Get(a1, k), v)
                      a2 == Put(a1, k, r.a)
                  IN  IF r.raised = "none"
                      THEN merge_items(a2, b, i + 1)
                      ELSE [a |-> a2, raised |-> r.raised]
             ELSE merge_items(Put(a, k, v), b, i + 1)

\* When a is a Command (a.setdefault(k, {}) returned the Command stored at
\* k), the first item of b raises: a Command has neither setdefault (asked
\* for a dict value) nor item assignment (asked for any other value). With
\* no item in b the loop body never runs.
deep_merge(a, b) ==
    IF IsDict(a)
    THEN merge_items(a, b, 1)
    ELSE [a |-> a,
          raised |-> IF Len(b.items) = 0 THEN "none"
                     ELSE IF IsDict(b.items[1][2]) THEN "AttributeError"
                     ELSE "TypeError"]

(***************************************************************************)
(* CmdSession.__build_completer, completer_dict                            *)
(***************************************************************************)
\* The completer's marker for a Command: None.
None == [type |-> "None"]

RECURSIVE __build_completer(_)
__build_completer(c) ==
    Dict([i \in Slots(c) |->
            <<c.items[i][1],
              IF IsCommand(c.items[i][2])
              THEN None
              ELSE __build_completer(c.items[i][2])>>])

completer_dict(c) == __build_completer(c)

(***************************************************************************)
(* CmdSession.refresh                                                      *)
(***************************************************************************)
\* for v in self.cmds.values(): self.deep_merge(self.__cmds, ...), from the
\* i-th collection on: the dict a as the loop leaves it, what was raised, and
\* the collections cs as the loop leaves them.
RECURSIVE refresh_loop(_, _, _)
refresh_loop(a, cs, i) ==
    IF i > Len(cs.items)
    THEN [a |-> a, raised |-> "none", cmds |-> cs]
    ELSE LET key == cs.items[i][1]
             v == cs.items[i][2]
             r == deep_merge(a, __build_aliases(v, key))
             cs1 == Put(cs, key, build_aliases_argument(v, key))
         IN  IF r.raised = "none"
             THEN refresh_loop(r.a, cs1, i + 1)
             ELSE [a |-> r.a, raised |-> r.raised, cmds |-> cs1]

\* As clear, were the commands of the last rebuild kept.
clear_nothing(d) == d

\* self.__cmds.clear()
clear(d) == Empty

\* self.compl_dict = self.completer_dict(); self.completer.update(...): the
\* two statements after the loop, reached when the loop r raised nothing.
update(r, old_compl, old_completer) ==
    [cmds |-> r.cmds,
     __cmds |-> r.a,
     compl_dict |-> IF r.raised = "none" THEN completer_dict(r.a)
                    ELSE old_compl,
     completer |-> IF r.raised = "none" THEN completer_dict(r.a)
                   ELSE old_completer,
     raised |-> r.raised]

\* What refresh leaves, for the commands ns, the collections cs and the
\* completion state before the call: __cmds is cleared and refilled; the
\* completion dict is rebuilt and pushed only when no merge raised.
refresh(ns, cs, old_compl, old_completer) ==
    update(refresh_loop(clear(ns), cs, 1), old_compl, old_completer)

(***************************************************************************)
(* CmdSession.parse                                                        *)
(***************************************************************************)
\* As parse_loop, were a dict reached at the end of the tokens refused.
RECURSIVE parse_loop_strict(_, _)
parse_loop_strict(d, _args) ==
    IF IsDict(d) /\ Len(_args) > 0
    THEN LET cu == Head(_args)
         IN  IF ~Has(d, cu)
             THEN [raised |-> "KeyError: Unknown command", d |-> NoValue,
                   _args |-> Tail(_args)]
             ELSE parse_loop_strict(Get(d, cu), Tail(_args))
    ELSE IF ~IsCommand(d)
         THEN [raised |-> "KeyError: Incomplete command", d |-> NoValue,
               _args |-> _args]
         ELSE [raised |-> "none", d |-> d, _args |-> _args]

\* The loop of parse, from the node d with the tokens _args left.
RECURSIVE parse_loop(_, _)
parse_loop(d, _args) ==
    IF IsDict(d) /\ Len(_args) > 0
    THEN LET cu == Head(_args)
         IN  IF ~Has(d, cu)
             THEN [raised |-> "KeyError: Unknown command", d |-> NoValue,
                   _args |-> Tail(_args)]
             ELSE parse_loop(Get(d, cu), Tail(_args))
    ELSE IF ~IsDict(d) /\ ~IsCommand(d)
         THEN [raised |-> "KeyError: Incomplete command", d |-> NoValue,
               _args |-> _args]
         ELSE [raised |-> "none", d |-> d, _args |-> _args]

\* As parse, were the loop run on the caller's list itself.
parse_in_place(ns, args) ==
    LET r == parse_loop(ns, args)
    IN  [raised |-> r.raised, d |-> r.d,
         _args |-> IF r.raised = "none" THEN r._args ELSE << >>,
         args |-> r._args]

\* parse(args) on the commands ns: what is raised, the node and the
\* remaining tokens returned, and the caller's list args after the call
\* (parse works on a copy of it).
parse(ns, args) ==
    LET r == parse_loop(ns, args)
    IN  [raised |-> r.raised, d |-> r.d,
         _args |-> IF r.raised = "none" THEN r._args ELSE << >>,
         args |-> args]

(***************************************************************************)
(* CmdSession.__getitem__                                                  *)
(***************************************************************************)
\* cmd.strip().split()
split(cmdline) == SelectSeq(cmdline, LAMBDA w : w # " ")

\* As __getitem__, were available(state) not asked.
getitem_unchecked(ns, cmd) ==
    LET p == parse(ns, split(cmd))
    IN  IF p.raised # "none"
        THEN [raised |-> p.raised, d |-> NoValue, args |-> << >>]
        ELSE IF IsDict(p.d)
        THEN [raised |-> "TypeError: has several sub-commands",
              d |-> NoValue, args |-> << >>]
        ELSE [raised |-> "none", d |-> p.d, args |-> p._args]

__getitem__(ns, cmd) ==
    LET p == parse(ns, split(cmd))
    IN  IF p.raised # "none"
        THEN [raised |-> p.raised, d |-> NoValue, args |-> << >>]
        ELSE IF IsDict(p.d)
        THEN [raised |-> "TypeError: has several sub-commands",
              d |-> NoValue, args |-> << >>]
        ELSE IF ~p.d.available
        THEN [raised |-> "ValueError: not usable in the current context",
              d |-> NoValue, args |-> << >>]
        ELSE [raised |-> "none", d |-> p.d, args |-> p._args]

(***************************************************************************)
(* What a call leaves of the session: extend, remove, exit and the call of *)
(* a Command.                                                              *)
(***************************************************************************)
\* The session as a call leaves it, what the call raised and whether it ran
\* refresh.
Session(cs, ns, cd, cp, order, removed, passed, n, raised, refreshed) ==
    [cmds |-> cs, __cmds |-> ns, compl_dict |-> cd, completer |-> cp,
     regorder |-> order, gone |-> removed, supplied |-> passed,
     cleanups |-> n, raised |-> raised, refreshed |-> refreshed]

\* The session as it is, left by a call that touched nothing of it.
Untouched(raised) ==
    Session(cmds, __cmds, compl_dict, completer, regorder, gone, supplied,
            cleanups, raised, FALSE)

\* The session as the refresh r at the end of extend or remove leaves it.
Refreshed(r, order, removed, passed) ==
    Session(r.cmds, r.__cmds, r.compl_dict, r.completer, order, removed,
            passed, cleanups, r.raised, TRUE)

\* regorder after extend(key, ...): key becomes the latest registration.
Registered(order, key) ==
    Append(SelectSeq(order, LAMBDA k : k # key), key)

\* CmdSession.extend(coll_name, cmds)
extend(coll_name, c) ==
    Refreshed(refresh(__cmds, Put(cmds, coll_name, c), compl_dict, completer),
              Registered(regorder, coll_name), NoValue,
              Put(supplied, coll_name, c))

\* As remove, were a key that is not registered passed over.
remove_if_present(coll_name) ==
    Refreshed(refresh(__cmds,
                      IF Has(cmds, coll_name) THEN Pop(cmds, coll_name)
                      ELSE cmds,
                      compl_dict, completer),
              SelectSeq(regorder, LAMBDA k : k # coll_name),
              IF Has(cmds, coll_name) THEN Get(cmds, coll_name) ELSE NoValue,
              IF Has(supplied, coll_name) THEN Pop(supplied, coll_name)
              ELSE supplied)

\* CmdSession.remove(coll_name): self.cmds.pop raises KeyError for a key
\* that is not registered, before anything changes.
remove(coll_name) ==
    IF ~Has(cmds, coll_name)
    THEN Untouched("KeyError")
    ELSE Refreshed(refresh(__cmds, Pop(cmds, coll_name), compl_dict,
                           completer),
                   SelectSeq(regorder, LAMBDA k : k # coll_name),
                   Get(cmds, coll_name), Pop(supplied, coll_name))

\* CmdSession.exit(): self.__cleanup(), then sys.exit(code)
exit == [Untouched("SystemExit") EXCEPT !.cleanups = cleanups + 1]

\* cmd(args, state=self.state) for the Command X: what X does with the
\* session that the state refers to, and what the call raises.
invoke(X) ==
    CASE X.call = "return" -> Untouched("none")
      [] X.call = "extend" -> extend(script(X).coll_name, script(X).cmds)
      [] X.call = "remove" -> remove(script(X).coll_name)
      [] X.call = "exit" -> exit
      [] OTHER -> Untouched(X.call)

(***************************************************************************)
(* CmdSession.handle                                                       *)
(***************************************************************************)
IsKeyError(e) == e \in {"KeyError", "KeyError: Unknown command",
                        "KeyError: Incomplete command"}

\* As excepts, were SystemExit reported like any other exception.
excepts_swallowing(calls, e) ==
    IF e = "none"
    THEN [invoked |-> calls, caught |-> e, reported |-> << >>,
          raised |-> "none"]
    ELSE IF IsKeyError(e)
    THEN [invoked |-> calls, caught |-> e,
          reported |-> <<"Command not found">>, raised |-> "none"]
    ELSE [invoked |-> calls, caught |-> e,
          reported |-> <<"Error while executing command">>,
          raised |-> "none"]

\* The except clauses of handle, for the Command calls made in the try
\* statement and the exception e that left it: the calls made, the
\* exception caught, the error lines printed through io.e, and what handle
\* raises to its caller.
excepts(calls, e) ==
    IF e = "none"
    THEN [invoked |-> calls, caught |-> e, reported |-> << >>,
          raised |-> "none"]
    ELSE IF IsKeyError(e)
    THEN [invoked |-> calls, caught |-> e,
          reported |-> <<"Command not found">>, raised |-> "none"]
    ELSE IF e = "SystemExit"
    THEN [invoked |-> calls, caught |-> e, reported |-> << >>,
          raised |-> e]
    ELSE [invoked |-> calls, caught |-> e,
          reported |-> <<"Error while executing command">>,
          raised |-> "none"]

\* The try statement of handle, self[cmdline] having come to g:
\* cmd, args = self[cmdline]; cmd(args, state=self.state)
try(g) ==
    excepts(IF g.raised = "none"
            THEN << [cmd |-> g.d, args |-> g.args] >>
            ELSE << >>,
            IF g.raised = "none" THEN invoke(g.d).raised ELSE g.raised)

\* As handle, were a blank line looked up like any other line.
handle_unstripped(ns, cmdline) == try(__getitem__(ns, cmdline))

\* What handle(cmdline) does on the commands ns.
handle(ns, cmdline) ==
    IF split(cmdline) = << >>
    THEN [invoked |-> << >>, caught |-> "none", reported |-> << >>,
          raised |-> "none"]
    ELSE try(__getitem__(ns, cmdline))

(***************************************************************************)
(* CmdSession.handle_forever                                               *)
(***************************************************************************)
\* As handle_forever, had its try statement no except clause.
handle_forever_unguarded(raised) ==
    IF raised = "none" THEN "running" ELSE "exited"

\* What becomes of the loop when the turn (the prompt, then handle) raised:
\* KeyboardInterrupt continues it, EOFError breaks it and handle_forever
\* returns, anything else leaves handle_forever as an exception.
handle_forever(raised) ==
    CASE raised = "none" -> "running"
      [] raised = "KeyboardInterrupt" -> "running"
      [] raised = "EOFError" -> "returned"
      [] OTHER -> "exited"

(***************************************************************************)
(* The session.                                                            *)
(***************************************************************************)
\* The record of a call: the operation, its arguments (a collection key, a
\* token list or a line), what came back, and whether refresh ran.
Call(op, key, line, raised, d, _args, args, invoked, caught, reported, ran) ==
    [op |-> op, key |-> key, line |-> line, raised |-> raised, d |-> d,
     _args |-> _args, args |-> args, invoked |-> invoked, caught |-> caught,
     reported |-> reported, refreshed |-> ran]

\* The record of a call on the registry.
RegistryCall(op, key, raised, refreshed) ==
    Call(op, key, << >>, raised, NoValue, << >>, << >>, << >>, "none", << >>,
         refreshed)

\* No call is being served: the session waits for its caller's next call.
Idle == RegistryCall("idle", "", "none", FALSE)

\* No second session has been constructed.
NoPeer == [cmds |-> NoValue, compl_dict |-> NoValue, completer |-> NoValue]

\* The session becomes what the call left of it.
Becomes(s) ==
    /\ cmds' = s.cmds
    /\ __cmds' = s.__cmds
    /\ compl_dict' = s.compl_dict
    /\ completer' = s.completer
    /\ regorder' = s.regorder
    /\ gone' = s.gone
    /\ supplied' = s.supplied
    /\ cleanups' = s.cleanups

\* CmdSession.__init__: self.cmds = {'__init__': cmds}; self.refresh()
Construct(c) ==
    \E r \in {refresh(Empty, Dict(<< <<"__init__", c>> >>), Empty, Empty)} :
        /\ cmds = r.cmds
        /\ __cmds = r.__cmds
        /\ compl_dict = r.compl_dict
        /\ completer = r.completer
        /\ pc = "running"
        /\ regorder = <<"__init__">>
        /\ gone = NoValue
        /\ last = RegistryCall("__init__", "__init__", r.raised, TRUE)
        /\ supplied = Dict(<< <<"__init__", c>> >>)
        /\ cleanups = 0
        /\ peer = NoPeer

Init == \E c \in Collections : Construct(c)

\* A call of extend(coll_name, cmds) by the host.
Extend ==
    \E k \in CollNames, c \in Collections :
        \E s \in {extend(k, c)} :
            /\ Becomes(s)
            /\ last' = RegistryCall("extend", k, s.raised, s.refreshed)
            /\ UNCHANGED <<pc, peer>>

\* A call of remove(coll_name) by the host.
Remove ==
    \E k \in CollNames :
        \E s \in {remove(k)} :
            /\ Becomes(s)
            /\ last' = RegistryCall("remove", k, s.raised, s.refreshed)
            /\ UNCHANGED <<pc, peer>>

\* A call of parse(args), as the validator and __getitem__ make it.
Parse(args) ==
    \E p \in {parse(__cmds, args)} :
        /\ last' = Call("parse", "", args, p.raised, p.d, p._args, p.args,
                        << >>, "none", << >>, FALSE)
        /\ UNCHANGED <<registry, pc, regorder, gone, supplied, cleanups, peer>>

\* One turn of handle_forever: self.handle(self.prompt(prompt)) with the
\* line cmdline. The Command that handle invokes may change the session.
Handle(cmdline) ==
    \E h \in {handle(__cmds, cmdline)} :
        \E s \in {IF h.invoked = << >>
                   THEN Untouched(h.raised)
                   ELSE invoke(h.invoked[1].cmd)} :
            /\ Becomes(s)
            /\ last' = Call("handle", "", cmdline, h.raised, NoValue, << >>,
                            << >>, h.invoked, h.caught, h.reported,
                            s.refreshed)
            /\ pc' = handle_forever(h.raised)
            /\ UNCHANGED peer

Resolve == \E args \in TokenSeqs : Parse(args)

Dispatch == \E cmdline \in Lines : Handle(cmdline)

\* One turn of handle_forever in which self.prompt raises: KeyboardInterrupt
\* when the user interrupts the read, EOFError at the end of the input.
Prompt(raised) ==
    /\ last' = Call("prompt", "", << >>, raised, NoValue, << >>, << >>, << >>,
                    raised, << >>, FALSE)
    /\ pc' = handle_forever(raised)
    /\ UNCHANGED <<registry, regorder, gone, supplied, cleanups, peer>>

Interrupt == Prompt("KeyboardInterrupt")

EndOfInput == Prompt("EOFError")

\* The caller has taken the result of the call; the session is single
\* threaded and serves one call at a time, each to its end.
Return ==
    /\ last # Idle
    /\ last' = Idle
    /\ UNCHANGED <<registry, pc, regorder, gone, supplied, cleanups, peer>>

\* CmdSession.__del__: self.exit(), once handle_forever has been left and
\* the session object is let go. The SystemExit that exit raises does not
\* leave __del__.
Del ==
    /\ pc \in {"returned", "exited"}
    /\ \E s \in {exit} :
           /\ Becomes(s)
           /\ last' = RegistryCall("__del__", "", s.raised, FALSE)
    /\ pc' = "deleted"
    /\ UNCHANGED peer

Ready == pc = "running" /\ last = Idle

Next ==
    \/ Ready /\ Extend
    \/ Ready /\ Remove
    \/ Ready /\ Resolve
    \/ Ready /\ Dispatch
    \/ Ready /\ Interrupt
    \/ Ready /\ EndOfInput
    \/ pc = "running" /\ Return
    \/ Del

Spec == Init /\ [][Next]_vars

(***************************************************************************)
(* An interactive shell: the session is constructed with commands that use *)
(* it, and handle_forever runs. While it runs, the Commands that handle    *)
(* invokes are the only callers of extend, remove and exit.                *)
(***************************************************************************)
InitLoop == \E c \in Shells : Construct(c)

NextLoop ==
    \/ Ready /\ Dispatch
    \/ Ready /\ Interrupt
    \/ Ready /\ EndOfInput
    \/ pc = "running" /\ Return
    \/ Del

Loop == InitLoop /\ [][NextLoop]_vars

(***************************************************************************)
(* Two sessions in one process. __cmds is an attribute of the class        *)
(* CmdSession (session.py:40): no method assigns self.__cmds, so both      *)
(* sessions clear, fill and read the one dict of the class. The first      *)
(* session keeps the collection it was constructed with.                   *)
(***************************************************************************)
\* refresh() of the second session, its collections being cs.
PeerRefreshes(cs, old_compl, old_completer, op, key) ==
    \E r \in {refresh(__cmds, cs, old_compl, old_completer)} :
        /\ peer' = [cmds |-> r.cmds, compl_dict |-> r.compl_dict,
                    completer |-> r.completer]
        /\ __cmds' = r.__cmds
        /\ last' = RegistryCall(op, key, r.raised, TRUE)
        /\ UNCHANGED <<cmds, compl_dict, completer, pc, regorder, gone,
                       supplied, cleanups>>

\* The second session is constructed: CmdSession(cmds)
PeerConstruct ==
    /\ peer = NoPeer
    /\ \E c \in Collections :
           PeerRefreshes(Dict(<< <<"__init__", c>> >>), Empty, Empty,
                         "peer.__init__", "__init__")

PeerExtend ==
    /\ peer # NoPeer
    /\ \E k \in CollNames, c \in Collections :
           PeerRefreshes(Put(peer.cmds, k, c), peer.compl_dict,
                         peer.completer, "peer.extend", k)

PeerRemove ==
    /\ peer # NoPeer
    /\ \E k \in CollNames :
           IF ~Has(peer.cmds, k)
           THEN /\ last' = RegistryCall("peer.remove", k, "KeyError", FALSE)
                /\ UNCHANGED <<registry, pc, regorder, gone, supplied,
                               cleanups, peer>>
           ELSE PeerRefreshes(Pop(peer.cmds, k), peer.compl_dict,
                              peer.completer, "peer.remove", k)

PeerRefresh ==
    /\ peer # NoPeer
    /\ PeerRefreshes(peer.cmds, peer.compl_dict, peer.completer,
                     "peer.refresh", "")

\* parse(args) of the second session
PeerResolve ==
    /\ peer # NoPeer
    /\ \E args \in TokenSeqs :
           \E p \in {parse(__cmds, args)} :
               /\ last' = Call("peer.parse", "", args, p.raised, p.d, p._args,
                               p.args, << >>, "none", << >>, FALSE)
               /\ UNCHANGED <<registry, pc, regorder, gone, supplied,
                              cleanups, peer>>

\* refresh() of the first session
Refresh ==
    \E r \in {refresh(__cmds, cmds, compl_dict, completer)} :
        /\ cmds' = r.cmds
        /\ __cmds' = r.__cmds
        /\ compl_dict' = r.compl_dict
        /\ completer' = r.completer
        /\ last' = RegistryCall("refresh", "", r.raised, TRUE)
        /\ UNCHANGED <<pc, regorder, gone, supplied, cleanups, peer>>

NextPair ==
    \/ Ready /\ PeerConstruct
    \/ Ready /\ PeerExtend
    \/ Ready /\ PeerRemove
    \/ Ready /\ PeerRefresh
    \/ Ready /\ PeerResolve
    \/ Ready /\ Refresh
    \/ Ready /\ Resolve
    \/ pc = "running" /\ Return

Pair == Init /\ [][NextPair]_vars

(***************************************************************************)
(* Vocabulary of the properties.                                           *)
(***************************************************************************)
Range(s) == {s[i] : i \in 1 .. Len(s)}

\* The instance that the rebuild's copy of collection owner holds for the
\* caller's Command v.
CopyOf(v, owner) == [v EXCEPT !.inst = owner]

\* The node that the key path p leads to from the node d, NoValue if the
\* path leaves the tree.
RECURSIVE NodeAt(_, _)
NodeAt(d, p) ==
    IF p = << >>
    THEN d
    ELSE IF IsDict(d) /\ Has(d, Head(p))
         THEN NodeAt(Get(d, Head(p)), Tail(p))
         ELSE NoValue

\* The node x holds the value v of collection owner: the one copy of a
\* Command, or a mapping with everything v declares.
RECURSIVE Holds(_, _, _)
Holds(x, v, owner) ==
    IF IsCommand(v)
    THEN x = CopyOf(v, owner)
    ELSE /\ IsDict(x)
         /\ \A k \in Keys(v) : Has(x, k) /\ Holds(Get(x, k), Get(v, k), owner)

\* Collection c maps the top-level name n to a Command.
TopCommand(c, n) == Has(c, n) /\ IsCommand(Get(c, n))

\* The words of a line.
Words(line) == SelectSeq(line, LAMBDA w : w # " ")

\* The latest call was a register or unregister call, or the construction:
\* the state is the one a rebuild left.
AfterRebuild == last.op \in {"__init__", "extend", "remove"}

\* Two collections are registered, under distinct keys, and the latest
\* call registered the second of them.
SecondRegistered ==
    /\ last.op = "extend"
    /\ Len(cmds.items) = 2
    /\ cmds.items[2][1] = last.key
    /\ regorder = <<cmds.items[1][1], cmds.items[2][1]>>

(***************************************************************************)
(* C1: when two collections are registered under distinct keys, one after  *)
(* the other, and both map the same top-level name to a Command, then      *)
(* after the rebuild the Merged Namespace maps that name to the Command of *)
(* the collection registered later, not to the earlier one.                *)
(***************************************************************************)
C1_LaterCommandWins ==
    SecondRegistered =>
        \A n \in Tokens :
            (TopCommand(cmds.items[1][2], n) /\ TopCommand(cmds.items[2][2], n))
            => /\ Has(__cmds, n)
               /\ Get(__cmds, n) = CopyOf(Get(cmds.items[2][2], n), last.key)
               /\ Get(__cmds, n) # CopyOf(Get(cmds.items[1][2], n),
                                          cmds.items[1][1])

(***************************************************************************)
(* C2: when two collections registered in order collide on a key where one *)
(* holds a Command and the other a sub-tree (in either order), register    *)
(* returns without raising and the Merged Namespace holds the later        *)
(* collection's value at that key.                                         *)
(***************************************************************************)
C2_CommandSubtreeReplaced ==
    SecondRegistered =>
        \A n \in Tokens :
            LET c1 == cmds.items[1][2]
                c2 == cmds.items[2][2]
            IN  (/\ Has(c1, n)
                 /\ Has(c2, n)
                 /\ IsCommand(Get(c1, n)) # IsCommand(Get(c2, n)))
                => /\ last.raised = "none"
                   /\ Has(__cmds, n)
                   /\ Holds(Get(__cmds, n), Get(c2, n), last.key)
                   /\ IsCommand(Get(__cmds, n)) = IsCommand(Get(c2, n))

(***************************************************************************)
(* C3: after any sequence of register and unregister calls, register calls *)
(* that overwrite a registered key included, every top-level name that     *)
(* maps to a Command in more than one registered collection is mapped by   *)
(* the Merged Namespace to the Command of the collection whose register    *)
(* call happened last. Stated for the calls that return: the violation is  *)
(* then one of the merge order, not the raise of C2.                       *)
(***************************************************************************)
C3_LatestRegistrationWins ==
    (AfterRebuild /\ last.raised = "none") =>
        \A n \in Tokens :
            LET holders == {i \in 1 .. Len(regorder) :
                              TopCommand(Get(cmds, regorder[i]), n)}
                latest == CHOOSE i \in holders : \A j \in holders : j <= i
            IN  Cardinality(holders) > 1
                => /\ Has(__cmds, n)
                   /\ Get(__cmds, n) = CopyOf(Get(Get(cmds, regorder[latest]), n),
                                              regorder[latest])

(***************************************************************************)
(* C4: for every Command with N aliases in a registered collection, after  *)
(* a rebuild the Merged Namespace holds N+1 entries at the level of the    *)
(* primary name (the name and each alias), all the same Command instance.  *)
(***************************************************************************)
C4_EveryCommandAliased ==
    AfterRebuild =>
        \A i \in Slots(cmds), p \in TokenSeqs :
            LET c == cmds.items[i][2]
                X == NodeAt(c, p)
                level == NodeAt(__cmds, SubSeq(p, 1, Len(p) - 1))
            IN  (Len(p) > 0 /\ IsCommand(X))
                => /\ IsDict(level)
                   /\ \A n \in {p[Len(p)]} \cup Range(X.aliases) :
                          /\ Has(level, n)
                          /\ Get(level, n) = CopyOf(X, cmds.items[i][1])

\* The top-level names of collection c: its keys and the aliases of its
\* top-level Commands.
TopNames(c) ==
    Keys(c) \cup UNION {Range(Get(c, k).aliases) :
                          k \in {x \in Keys(c) : IsCommand(Get(c, x))}}

\* No alias of a top-level Command of c is another key or alias of c.
Unambiguous(c) ==
    \A k \in Keys(c) :
        TopCommand(c, k) =>
            LET al == Get(c, k).aliases
            IN  /\ Cardinality(Range(al)) = Len(al)
                /\ Range(al) \cap Keys(c) = {}
                /\ \A k2 \in Keys(c) \ {k} :
                       TopCommand(c, k2)
                       => Range(al) \cap Range(Get(c, k2).aliases) = {}

\* The registered top-level Commands that the name n stands for: key, primary
\* name and Command.
Named(n) ==
    {r \in [key : Keys(cmds), name : Tokens] :
        LET c == Get(cmds, r.key)
        IN  /\ TopCommand(c, r.name)
            /\ n \in {r.name} \cup Range(Get(c, r.name).aliases)}

(***************************************************************************)
(* C4, amended: for every Command with N aliases at the top level of a     *)
(* registered collection (no alias being another name of the collection),  *)
(* the alias-expanded copy that a rebuild merges holds exactly N+1         *)
(* top-level entries for it, one and the same instance; every Command the  *)
(* Merged Namespace holds at its top level is the instance some registered *)
(* collection's expanded copy holds under that name; and a line dispatched *)
(* through the primary name or an alias that the Merged Namespace maps to  *)
(* that instance invokes it with the words after the name.                 *)
(***************************************************************************)
C4_TopLevelAliasesShareInstance ==
    /\ AfterRebuild =>
           /\ \A i \in Slots(cmds), k \in Tokens :
                  LET key == cmds.items[i][1]
                      c == cmds.items[i][2]
                      e == __build_aliases(c, key)
                  IN  (Unambiguous(c) /\ TopCommand(c, k))
                      => LET X == Get(c, k)
                         IN  /\ \A n \in {k} \cup Range(X.aliases) :
                                    Has(e, n) /\ Get(e, n) = CopyOf(X, key)
                             /\ Cardinality({n \in Keys(e) :
                                               Get(e, n) = CopyOf(X, key)})
                                = Len(X.aliases) + 1
           /\ \A n \in Keys(__cmds) :
                  IsCommand(Get(__cmds, n))
                  => \E i \in Slots(cmds) :
                         LET e == __build_aliases(cmds.items[i][2],
                                                  cmds.items[i][1])
                         IN  Has(e, n) /\ Get(e, n) = Get(__cmds, n)
    /\ (last.op = "handle" /\ Words(last.line) # << >>) =>
           \A r \in Named(Head(Words(last.line))) :
               LET X == CopyOf(Get(Get(cmds, r.key), r.name), r.key)
               IN  (/\ Has(__cmds, Head(Words(last.line)))
                    /\ Get(__cmds, Head(Words(last.line))) = X
                    /\ X.available)
                   => last.invoked
                      = << [cmd |-> X, args |-> Tail(Words(last.line))] >>

C4_Witness ==
    /\ last.op = "handle"
    /\ last.line = <<"g", "foo">>
    /\ Has(__cmds, "g")
    /\ Has(__cmds, "go")
    /\ Get(__cmds, "g") = CopyOf(GO, "__init__")
    /\ Get(__cmds, "go") = Get(__cmds, "g")
    /\ last.invoked = << [cmd |-> CopyOf(GO, "__init__"), args |-> <<"foo">>] >>

(***************************************************************************)
(* C5: for a Command declared inside a nested sub-tree of a collection,    *)
(* after a rebuild each of its aliases is a key of that same sub-tree and  *)
(* the path that ends in the alias leads to that Command.                  *)
(***************************************************************************)
C5_NestedAliasesExpanded ==
    AfterRebuild =>
        \A i \in Slots(cmds), p \in TokenSeqs :
            LET X == NodeAt(cmds.items[i][2], p)
                q == SubSeq(p, 1, Len(p) - 1)
            IN  (Len(p) >= 2 /\ IsCommand(X))
                => \A a \in Range(X.aliases) :
                       NodeAt(__cmds, Append(q, a))
                       = CopyOf(X, cmds.items[i][1])

\* Some registered collection declares the key path p.
Declared(p) == \E i \in Slots(cmds) : NodeAt(cmds.items[i][2], p) # NoValue

\* The paths that end in an alias of a Command declared in a nested
\* sub-tree of a registered collection.
NestedAliasPaths ==
    {pa \in TokenSeqs :
        /\ Len(pa) >= 2
        /\ \E i \in Slots(cmds), k \in Tokens :
               LET X == NodeAt(cmds.items[i][2],
                               Append(SubSeq(pa, 1, Len(pa) - 1), k))
               IN  IsCommand(X) /\ pa[Len(pa)] \in Range(X.aliases)}

(***************************************************************************)
(* C5, amended: aliases are expanded at the top level of a collection      *)
(* only. For a Command declared inside a nested sub-tree a rebuild adds no *)
(* entry for its aliases, in that sub-tree or at the root: every nested    *)
(* path of the Merged Namespace is a path some registered collection       *)
(* declares, every top-level key is a key or a top-level alias of a        *)
(* registered collection, and resolving a path that ends in a nested alias *)
(* which no registered collection declares as a key fails with             *)
(* UnknownCommand or stops at a Command before the end of the path.        *)
(***************************************************************************)
C5_AliasesOnlyAtTopLevel ==
    /\ AfterRebuild =>
           /\ \A p \in TokenSeqs :
                  (Len(p) >= 2 /\ NodeAt(__cmds, p) # NoValue) => Declared(p)
           /\ \A n \in Keys(__cmds) :
                  \E i \in Slots(cmds) : n \in TopNames(cmds.items[i][2])
    /\ (last.op = "parse" /\ last.line \in NestedAliasPaths
        /\ ~Declared(last.line))
       => \/ last.raised = "KeyError: Unknown command"
          \/ last.raised = "none" /\ IsCommand(last.d) /\ Len(last._args) > 0

C5_Witness ==
    /\ last.op = "parse"
    /\ last.line = <<"foo", "g">>
    /\ last.raised = "KeyError: Unknown command"
    /\ NodeAt(__cmds, <<"foo", "bar">>) = CopyOf(BAR, "__init__")
    /\ Keys(Get(__cmds, "foo")) = {"bar"}
    /\ Keys(__cmds) = {"foo", "go"}

(***************************************************************************)
(* C6: resolve fails with IncompleteCommand whenever the tokens are        *)
(* exhausted while the current node is still an interior mapping, the      *)
(* empty token list at the root included.                                  *)
(***************************************************************************)
C6_InteriorIsIncomplete ==
    (last.op = "parse" /\ IsDict(NodeAt(__cmds, last.line)))
    => last.raised = "KeyError: Incomplete command"

(***************************************************************************)
(* C6, amended: when the tokens are exhausted while the current node is an *)
(* interior mapping, resolve does not fail: it returns that mapping with   *)
(* no remaining tokens (resolve([]) returns the root mapping). The failure *)
(* is raised by dispatch, which reports such a line as having several      *)
(* sub-commands and invokes no Command.                                    *)
(***************************************************************************)
C6_InteriorIsReturned ==
    /\ (last.op = "parse" /\ IsDict(NodeAt(__cmds, last.line)))
       => /\ last.raised = "none"
          /\ last.d = NodeAt(__cmds, last.line)
          /\ last._args = << >>
    /\ (last.op = "handle" /\ Words(last.line) # << >>
        /\ IsDict(NodeAt(__cmds, Words(last.line))))
       => /\ last.caught = "TypeError: has several sub-commands"
          /\ last.reported = <<"Error while executing command">>
          /\ last.invoked = << >>
          /\ last.raised = "none"

C6_Witness ==
    /\ last.op = "parse"
    /\ last.line = << >>
    /\ last.raised = "none"
    /\ last.d = __cmds
    /\ Has(__cmds, "go")

\* The first n of the tokens t, and the tokens after them.
Prefix(t, n) == SubSeq(t, 1, n)

Rest(t, n) == SubSeq(t, n + 1, Len(t))

(***************************************************************************)
(* C7: for every token sequence whose prefix is a path to a Command X in   *)
(* the Merged Namespace, resolve returns X with exactly the tokens after   *)
(* that prefix, in their order: it stops at the first Command, does not    *)
(* fail on leftover tokens and leaves the caller's token sequence as it    *)
(* was.                                                                    *)
(***************************************************************************)
C7_CommandAndLeftoverTokens ==
    last.op = "parse" =>
        \A n \in 1 .. Len(last.line) :
            IsCommand(NodeAt(__cmds, Prefix(last.line, n)))
            => /\ last.raised = "none"
               /\ last.d = NodeAt(__cmds, Prefix(last.line, n))
               /\ last._args = Rest(last.line, n)
               /\ last.args = last.line

C7_Witness ==
    /\ last.op = "parse"
    /\ last.line = <<"foo", "bar", "go">>
    /\ last.d = CopyOf(BAR, "A")
    /\ last._args = <<"go">>
    /\ last.args = <<"foo", "bar", "go">>

\* The key path p exists in collection c, its top-level aliases included.
PathIn(c, p) ==
    /\ Len(p) > 0
    /\ \/ NodeAt(c, p) # NoValue
       \/ Len(p) = 1 /\ p[1] \in TopNames(c)

\* The latest registry call removed a collection, and the path p existed
\* in that collection and exists in no registered one.
OnlyInRemoved(p) ==
    /\ gone # NoValue
    /\ PathIn(gone, p)
    /\ \A i \in Slots(cmds) : ~PathIn(cmds.items[i][2], p)

(***************************************************************************)
(* C8: after unregister(key) of a registered collection, resolving any     *)
(* path that existed only in that collection fails with UnknownCommand,    *)
(* whatever the other collections hold at the prefixes of the path, and    *)
(* dispatching such a path invokes no Command.                             *)
(***************************************************************************)
C8_RemovedPathUnknown ==
    /\ (last.op = "parse" /\ OnlyInRemoved(last.line))
       => last.raised = "KeyError: Unknown command"
    /\ (last.op = "handle" /\ OnlyInRemoved(Words(last.line)))
       => last.invoked = << >>

(***************************************************************************)
(* C8, amended: after unregister(key), resolving a path that existed only  *)
(* in that collection fails with UnknownCommand and dispatching it invokes *)
(* no Command, unless a proper prefix of the path is a path to a Command   *)
(* in the Merged Namespace: resolve then returns that Command with the     *)
(* rest of the path as arguments, and dispatch invokes no other Command    *)
(* than that one.                                                          *)
(***************************************************************************)
C8_RemovedPathUnknownOrShadowed ==
    /\ (last.op = "parse" /\ OnlyInRemoved(last.line))
       => \/ last.raised = "KeyError: Unknown command"
          \/ \E n \in 1 .. Len(last.line) - 1 :
                 /\ IsCommand(NodeAt(__cmds, Prefix(last.line, n)))
                 /\ last.raised = "none"
                 /\ last.d = NodeAt(__cmds, Prefix(last.line, n))
                 /\ last._args = Rest(last.line, n)
    /\ (last.op = "handle" /\ OnlyInRemoved(Words(last.line)))
       => \/ /\ last.caught = "KeyError: Unknown command"
             /\ last.reported = <<"Command not found">>
             /\ last.invoked = << >>
          \/ \E n \in 1 .. Len(Words(last.line)) - 1 :
                 LET X == NodeAt(__cmds, Prefix(Words(last.line), n))
                 IN  /\ IsCommand(X)
                     /\ last.invoked
                        = IF X.available
                          THEN << [cmd |-> X,
                                   args |-> Rest(Words(last.line), n)] >>
                          ELSE << >>

C8_Witness ==
    /\ last.op = "parse"
    /\ gone = tree
    /\ last.line = <<"foo", "bar">>
    /\ OnlyInRemoved(last.line)
    /\ Keys(__cmds) = {"go", "g"}
    /\ last.raised = "KeyError: Unknown command"

\* The words of the line start with a path to a Command of the commands ns
\* whose availability predicate returns false.
ResolvesUnavailable(ns, line) ==
    \E n \in 1 .. Len(Words(line)) :
        /\ IsCommand(NodeAt(ns, Prefix(Words(line), n)))
        /\ ~NodeAt(ns, Prefix(Words(line), n)).available

(***************************************************************************)
(* C9: dispatching a line whose Command resolves but whose availability    *)
(* predicate returns false fails with UnavailableCommand, which is         *)
(* reported as an error; the Command is not invoked, and the registered    *)
(* collections, the Merged Namespace and the Completion Projection are     *)
(* left as they were.                                                      *)
(***************************************************************************)
C9_UnavailableNotInvoked ==
    [][(last'.op = "handle" /\ ResolvesUnavailable(__cmds, last'.line))
       => /\ last'.caught = "ValueError: not usable in the current context"
          /\ last'.reported = <<"Error while executing command">>
          /\ last'.invoked = << >>
          /\ last'.raised = "none"
          /\ UNCHANGED registry]_vars

C9_Witness ==
    /\ last.op = "handle"
    /\ last.line = <<"bar", "go">>
    /\ Has(__cmds, "bar")
    /\ Get(__cmds, "bar") = CopyOf(OFF, "A")
    /\ last.caught = "ValueError: not usable in the current context"
    /\ last.invoked = << >>

(***************************************************************************)
(* C10: when the invocation of a dispatched Command raises the session     *)
(* termination signal (SystemExit), dispatch propagates it to its caller   *)
(* and reports no error; when it raises anything else, dispatch catches    *)
(* it, reports exactly one error line and returns, and the input loop goes *)
(* on to the next line.                                                    *)
(***************************************************************************)
C10_ExitPropagatesOthersReported ==
    last.op = "handle" =>
        \A n \in 1 .. Len(Words(last.line)) :
            LET X == NodeAt(__cmds, Prefix(Words(last.line), n))
            IN  (IsCommand(X) /\ X.available)
                => /\ last.invoked
                      = << [cmd |-> X, args |-> Rest(Words(last.line), n)] >>
                   /\ X.call = "SystemExit"
                      => /\ last.raised = "SystemExit"
                         /\ last.caught = "SystemExit"
                         /\ last.reported = << >>
                         /\ pc = "exited"
                   /\ X.call \notin {"return", "SystemExit"}
                      => /\ last.raised = "none"
                         /\ last.caught = X.call
                         /\ Len(last.reported) = 1
                         /\ pc = "running"

C10_Witness ==
    /\ last.op = "handle"
    /\ last.line = <<"go", "foo">>
    /\ last.invoked = << [cmd |-> CopyOf(GO2, "A"), args |-> <<"foo">>] >>
    /\ last.raised = "SystemExit"
    /\ last.reported = << >>
    /\ pc = "exited"

(***************************************************************************)
(* C11: unregister(key) with a key that is not currently registered (never *)
(* registered, or already removed) fails with a lookup error instead of    *)
(* returning silently, and leaves the registered collections, the Merged   *)
(* Namespace and the Completion Projection exactly as they were before the *)
(* call: no rebuild runs.                                                  *)
(***************************************************************************)
C11_AbsentKeyIsLookupError ==
    [][(last'.op = "remove" /\ ~Has(cmds, last'.key))
       => /\ last'.raised = "KeyError"
          /\ ~last'.refreshed
          /\ UNCHANGED registry]_vars

C11_Witness ==
    /\ last.op = "remove"
    /\ last.key = "__init__"
    /\ last.raised = "KeyError"
    /\ ~Has(cmds, "__init__")
    /\ Has(cmds, "A")
    /\ Keys(__cmds) # {}

(***************************************************************************)
(* C12: dispatching a blank line (empty or whitespace only) is a no-op: no *)
(* error is reported, no Command is resolved or invoked, no refresh is     *)
(* triggered, and the registered collections, the Merged Namespace and the *)
(* Completion Projection are unchanged.                                    *)
(***************************************************************************)
C12_BlankLineIsNoOp ==
    [][(last'.op = "handle" /\ Words(last'.line) = << >>)
       => /\ last'.reported = << >>
          /\ last'.invoked = << >>
          /\ last'.caught = "none"
          /\ last'.raised = "none"
          /\ ~last'.refreshed
          /\ pc' = pc
          /\ UNCHANGED registry]_vars

C12_Witness ==
    /\ last.op = "handle"
    /\ last.line = <<" ", " ">>
    /\ last.reported = << >>
    /\ last.invoked = << >>
    /\ Keys(__cmds) = {"go", "g"}
    /\ pc = "running"

(***************************************************************************)
(* C13: in the input loop, an interrupt signal during the blocking input   *)
(* read is caught and the loop prompts again without terminating the       *)
(* session, however many interrupts occur (after every one of them the     *)
(* loop runs and the registry is as it was); end-of-input stops the loop   *)
(* and the loop function returns normally without raising.                 *)
(***************************************************************************)
C13_InterruptRepromptsEndOfInputReturns ==
    [][last'.op = "prompt"
       => /\ last'.raised = "KeyboardInterrupt" => pc' = "running"
          /\ last'.raised = "EOFError" => pc' = "returned"
          /\ last'.reported = << >>
          /\ UNCHANGED <<registry, cleanups>>]_vars

C13_Witness ==
    /\ last.op = "prompt"
    /\ last.raised = "KeyboardInterrupt"
    /\ pc = "running"
    /\ Len(cmds.items) = 2

(***************************************************************************)
(* C14: on every path by which the session ends (end-of-input leaving the  *)
(* loop, a Command calling the engine's exit operation, a Command raising  *)
(* the termination signal itself, and destruction of the engine object),   *)
(* the cleanup callback is invoked exactly once: never twice, and once by  *)
(* the time the engine object is destroyed.                                *)
(***************************************************************************)
C14_CleanupExactlyOnce ==
    /\ cleanups <= 1
    /\ pc = "deleted" => cleanups = 1

(***************************************************************************)
(* C15: register, unregister, refresh, resolve and dispatch never mutate a *)
(* collection object supplied by a caller: after any sequence of these     *)
(* operations every registered collection has exactly the keys and values  *)
(* it had when it was passed to register (alias entries are added to a     *)
(* copy only).                                                             *)
(***************************************************************************)
C15_CollectionsNotMutated ==
    /\ Keys(cmds) = Keys(supplied)
    /\ \A k \in Keys(cmds) : Get(cmds, k) = Get(supplied, k)

C15_Witness ==
    /\ last.op = "handle"
    /\ last.line = <<"g">>
    /\ Len(cmds.items) = 2
    /\ Has(cmds, "__init__")
    /\ Get(cmds, "__init__") = core
    /\ Has(__cmds, "g")
    /\ last.invoked = << [cmd |-> CopyOf(GO, "__init__"), args |-> << >>] >>

\* The merge that the Merged Namespace is defined by: the tree a with the
\* items of b from the i-th on folded in. Two sub-trees at one key merge
\* recursively; in every other collision the later value replaces the
\* earlier one.
RECURSIVE Overlay(_, _, _)
Overlay(a, b, i) ==
    IF i > Len(b.items)
    THEN a
    ELSE LET k == b.items[i][1]
             v == b.items[i][2]
         IN  Overlay(IF Has(a, k) /\ IsDict(Get(a, k)) /\ IsDict(v)
                     THEN Put(a, k, Overlay(Get(a, k), v, 1))
                     ELSE IF IsDict(v)
                     THEN Put(a, k, Overlay(Empty, v, 1))
                     ELSE Put(a, k, v),
                     b, i + 1)

\* The fold of the alias-expanded copies of the registered collections, in
\* the order of their register calls, from the i-th on, into the tree a.
RECURSIVE Fold(_, _)
Fold(a, i) ==
    IF i > Len(regorder)
    THEN a
    ELSE Fold(Overlay(a, __build_aliases(Get(cmds, regorder[i]), regorder[i]),
                      1),
              i + 1)

\* The trees x and y have the same key paths and the same Commands.
RECURSIVE SameTree(_, _)
SameTree(x, y) ==
    IF IsDict(x) /\ IsDict(y)
    THEN /\ Keys(x) = Keys(y)
         /\ \A k \in Keys(x) : SameTree(Get(x, k), Get(y, k))
    ELSE x = y

(***************************************************************************)
(* C16: after every register or unregister call on an engine, its Merged   *)
(* Namespace equals the fold, from an empty tree and in registration       *)
(* order, of the alias-expanded copies of exactly the currently registered *)
(* collections: it contains no entry that comes only from a removed or     *)
(* overwritten collection and misses no entry of a registered one.         *)
(***************************************************************************)
C16_NamespaceIsFold ==
    (AfterRebuild /\ last.refreshed) => SameTree(__cmds, Fold(Empty, 1))

\* The projection p has the key paths of the tree n, a mapping where n has
\* a mapping and the terminal marker where n has a Command.
RECURSIVE Isomorphic(_, _)
Isomorphic(p, n) ==
    /\ IsDict(p)
    /\ Keys(p) = Keys(n)
    /\ \A k \in Keys(n) :
           IF IsCommand(Get(n, k))
           THEN Get(p, k) = None
           ELSE Isomorphic(Get(p, k), Get(n, k))

(***************************************************************************)
(* C17: after every register or unregister call, the Completion Projection *)
(* last pushed to the completion collaborator through update is isomorphic *)
(* to the current Merged Namespace: it has the same key paths, every       *)
(* interior mapping is an interior mapping, and every Command (primary or  *)
(* alias entry) is a terminal marker.                                      *)
(***************************************************************************)
C17_ProjectionIsomorphic ==
    (AfterRebuild /\ last.refreshed)
    => Isomorphic(completer, __cmds) /\ compl_dict = completer

\* The latest dispatch invoked a Command that called extend or remove on
\* the session it ran in.
Reentered ==
    /\ last.op = "handle"
    /\ last.invoked # << >>
    /\ last.invoked[1].cmd.call \in {"extend", "remove"}

(***************************************************************************)
(* C18: when a dispatched Command calls register or unregister on the      *)
(* engine it is running inside (unregistering the collection that holds    *)
(* the running Command included), the rebuild of the Merged Namespace and  *)
(* the Completion Projection completes before control returns to the       *)
(* Command, the outer dispatch then completes normally, and the next       *)
(* dispatch resolves against the new namespace.                            *)
(***************************************************************************)
C18_ReentrantRebuildCompletes ==
    Reentered =>
        /\ last.refreshed
        /\ last.caught = "none"
        /\ last.reported = << >>
        /\ last.raised = "none"
        /\ pc = "running"
        /\ SameTree(__cmds, Fold(Empty, 1))
        /\ Isomorphic(completer, __cmds)

(***************************************************************************)
(* C19: dispatch reports the distinct "command not found" error only when  *)
(* the Resolver could not find the command; when a Command was resolved    *)
(* and its own invocation raised (whatever condition it raised, a lookup   *)
(* error included), dispatch reports an execution error, never "command    *)
(* not found".                                                             *)
(***************************************************************************)
C19_NotFoundOnlyFromResolver ==
    (last.op = "handle" /\ last.invoked # << >>)
    => /\ last.reported # <<"Command not found">>
       /\ last.caught \notin {"none", "SystemExit"}
          => last.reported = <<"Error while executing command">>

\* What parse(args) returns on the namespace that the collections cs, and
\* they alone, are merged into.
OwnResolve(cs, args) == parse(refresh_loop(Empty, cs, 1).a, args)

(***************************************************************************)
(* C20: the Merged Namespace is state of one engine instance: with two     *)
(* engine instances alive in the same process, constructing the second, or *)
(* calling register, unregister or refresh on one of them, does not change *)
(* what resolve returns on the other: each resolves against the namespace  *)
(* of its own registered collections.                                      *)
(***************************************************************************)
C20_NamespacePerSession ==
    /\ last.op = "parse"
       => /\ last.raised = OwnResolve(cmds, last.line).raised
          /\ last.d = OwnResolve(cmds, last.line).d
    /\ (last.op = "peer.parse" /\ refresh_loop(Empty, peer.cmds, 1).raised = "none")
       => /\ last.raised = OwnResolve(peer.cmds, last.line).raised
          /\ last.d = OwnResolve(peer.cmds, last.line).d

(***************************************************************************)
(* C21: register is all-or-nothing: if a register call raises during the   *)
(* rebuild, the registered-collections mapping, the Merged Namespace and   *)
(* the Completion Projection (the one the session holds and the one pushed *)
(* to the completion collaborator) are all as they were before the call,   *)
(* so that a failed call cannot make the three disagree with one another.  *)
(***************************************************************************)
C21_RegisterAllOrNothing ==
    [][(last'.op = "extend" /\ last'.raised # "none")
       => UNCHANGED registry]_vars

=============================================================================
